---- MODULE Spec2Model ----
(***************************************************************************)
(* Model of the slot-packing scheduler of TaskMate-AI                      *)
(* (src/smart_scheduler.py) and of the validation of the optional          *)
(* reordering (src/schedule_tasks_with_llm.py).                            *)
(*                                                                         *)
(* Time is an integer number of minutes since 00:00 of the day of the      *)
(* call ("today").  1440 is 00:00 of the next day; negative values are     *)
(* times of the previous day.  Seconds are not modelled: every timestamp   *)
(* the scheduler computes with has had its seconds zeroed                  *)
(* (smart_scheduler.py lines 29, 37, 75 and strptime at line 26).          *)
(***************************************************************************)
EXTENDS Integers, Sequences, FiniteSets, TLC

\* ---------------------------------------------------------------- bounds
MaxTasks == 2

\* -------------------------------------------------------- configuration
GRID_MINUTES == <<0, 15, 30, 45>>
FORCED_BREAK_MIN == 5
PERSONAL_WINDOW_HOURS == 6
\* range(12 * 4 + 1) of both slot searches
SCAN_LIMIT == 12 * 4 + 1

\* Python's None for an Optional[datetime], and a raised ValueError
None == 0 - 1
ValueError == 0 - 2
\* the empty result of a slot search (Python's None for Optional[Tuple])
NoSlot == <<>>

Max2(a, b) == IF a >= b THEN a ELSE b
Min2(a, b) == IF a <= b THEN a ELSE b
SetMax(S) == CHOOSE x \in S : \A y \in S : y <= x
SetMin(S) == CHOOSE x \in S : \A y \in S : x <= y

\* Python's stable sort: the permutation of 1..Len(keys) that orders the
\* keys ascending and keeps equal keys in their original order.
StableOrder(keys) ==
    LET n == Len(keys)
        Before(i, j) == keys[i] < keys[j] \/ (keys[i] = keys[j] /\ i < j)
        Rank(i) == Cardinality({j \in 1..n : Before(j, i)}) + 1
    IN [r \in 1..n |-> CHOOSE i \in 1..n : Rank(i) = r]

\* ------------------------------------------------------------- utilities
\* _fmt: "%I:%M %p" with the leading zero of the hour stripped.  The string
\* is modelled by its three fields; it carries no date.
_fmt(t) ==
    LET tod == t % 1440
        H == tod \div 60
    IN [hour |-> IF H % 12 = 0 THEN 12 ELSE H % 12,
        minute |-> tod % 60,
        ampm |-> IF H < 12 THEN "AM" ELSE "PM"]

\* datetime.strptime(x, "%I:%M %p"): a time of day on the fixed date
\* 1900-01-01, here as minutes since midnight.
StrptimeIMp(f) == (f.hour % 12) * 60 + f.minute + (IF f.ampm = "PM" THEN 720 ELSE 0)

\* _time_to_dt(base_day, hhmm) for a string of the shape dd:dd: strptime
\* "%H:%M" raises ValueError when the hour or the minute is out of range.
_time_to_dt(hh, mm) ==
    IF hh > 23 \/ mm > 59 THEN ValueError ELSE hh * 60 + mm

\* _round_up_to_grid without the carry into the next hour
RoundUpNoCarry(dt) ==
    LET m == dt % 60
        ups == {i \in 1..Len(GRID_MINUTES) : m <= GRID_MINUTES[i]}
    IN IF ups # {} THEN (dt - m) + GRID_MINUTES[SetMin(ups)]
       ELSE (dt - m) + GRID_MINUTES[1]

_round_up_to_grid(dt) ==
    LET m == dt % 60
        ups == {i \in 1..Len(GRID_MINUTES) : m <= GRID_MINUTES[i]}
    IN IF ups # {} THEN (dt - m) + GRID_MINUTES[SetMin(ups)]
       ELSE ((dt - m) + 60) + GRID_MINUTES[1]

_round_down_to_grid(dt) ==
    LET m == dt % 60
        downs == {GRID_MINUTES[i] : i \in {j \in 1..Len(GRID_MINUTES) : GRID_MINUTES[j] <= m}}
    IN IF downs # {} THEN (dt - m) + SetMax(downs)
       ELSE ((dt - m) - 60) + SetMax({GRID_MINUTES[i] : i \in 1..Len(GRID_MINUTES)})

\* _duration_minutes clamped from below only
DurationNoUpperClamp(task) ==
    LET val == task.duration
        minutes == IF val.kind = "int" THEN val.n
                   ELSE IF val.s = "short" THEN 15
                   ELSE IF val.s = "medium" THEN 30
                   ELSE IF val.s = "long" THEN 60
                   ELSE IF val.parses THEN val.n
                   ELSE 30
    IN Max2(5, minutes)

\* _duration_minutes: int minutes or the labels short/medium/long; a string
\* is given by its stripped lower-case text s, by whether int(s) succeeds
\* (parses) and by the value n of int(s).
_duration_minutes(task) ==
    LET val == task.duration
        minutes == IF val.kind = "int" THEN val.n
                   ELSE IF val.s = "short" THEN 15
                   ELSE IF val.s = "medium" THEN 30
                   ELSE IF val.s = "long" THEN 60
                   ELSE IF val.parses THEN val.n
                   ELSE 30
    IN Max2(5, Min2(minutes, 240))

\* _parse_deadline_from_text: the description carries the groups of the
\* first match of _DEADLINE_RE (ampm = "none" when there is no match,
\* minute = None when the optional minute group did not take part).
\* now.replace(hour=, minute=) raises ValueError out of range.
_parse_deadline_from_text(text) ==
    IF text.ampm = "none" THEN None
    ELSE LET hour0 == text.hour
             minute == IF text.minute = None THEN 0 ELSE text.minute
             hour1 == IF hour0 = 12 THEN 0 ELSE hour0
             hour2 == IF text.ampm = "pm" THEN hour1 + 12 ELSE hour1
         IN IF hour2 > 23 \/ minute > 59 THEN ValueError
            ELSE hour2 * 60 + minute

\* ------------------------------------------------------- packing helpers
\* _fits with the window test only, without the test against 'occupied'
FitsWindowOnly(start, end, occupied, day_start, day_end) ==
    ~(start < day_start \/ end > day_end \/ start >= end)

\* _fits without the test against the start of the window
FitsNoStartBound(start, end, occupied, day_start, day_end) ==
    IF end > day_end \/ start >= end THEN FALSE
    ELSE \A i \in 1..Len(occupied) :
            (end <= occupied[i][1] \/ start >= occupied[i][2])

_fits(start, end, occupied, day_start, day_end) ==
    IF start < day_start \/ end > day_end \/ start >= end THEN FALSE
    ELSE \A i \in 1..Len(occupied) :
            (end <= occupied[i][1] \/ start >= occupied[i][2])

_add_with_break(occupied, start, end) ==
    Append(Append(occupied, <<start, end>>), <<end, end + FORCED_BREAK_MIN>>)

RECURSIVE MergeFold(_, _)
MergeFold(out, rest) ==
    IF rest = <<>> THEN out
    ELSE LET s == rest[1][1]
             e == rest[1][2]
             ls == out[Len(out)][1]
             le == out[Len(out)][2]
         IN IF s <= le
            THEN MergeFold([out EXCEPT ![Len(out)] = <<ls, Max2(le, e)>>], Tail(rest))
            ELSE MergeFold(Append(out, <<s, e>>), Tail(rest))

_merge(occupied) ==
    IF occupied = <<>> THEN <<>>
    ELSE LET ord == StableOrder([i \in 1..Len(occupied) |-> occupied[i][1]])
             occ == [i \in 1..Len(occupied) |-> occupied[ord[i]]]
         IN MergeFold(<<occ[1]>>, Tail(occ))

RECURSIVE BackwardScan(_, _, _, _, _, _)
BackwardScan(iter, end_candidate, dur, occupied, day_start, deadline) ==
    IF iter > SCAN_LIMIT THEN NoSlot
    ELSE LET start_candidate == _round_up_to_grid(end_candidate - dur)
             end2 == start_candidate + dur
         IN IF _fits(start_candidate, end2, occupied, day_start, deadline)
            THEN <<start_candidate, end2>>
            ELSE IF end2 - 15 <= day_start THEN NoSlot
            ELSE BackwardScan(iter + 1, end2 - 15, dur, occupied, day_start, deadline)

_find_backward_slot(deadline, duration_min, occupied, day_start) ==
    BackwardScan(1, _round_down_to_grid(deadline), duration_min, occupied, day_start, deadline)

RECURSIVE ForwardScan(_, _, _, _, _, _)
ForwardScan(iter, start_candidate, dur, occupied, day_start, day_end) ==
    IF iter > SCAN_LIMIT THEN NoSlot
    ELSE LET end_candidate == start_candidate + dur
         IN IF _fits(start_candidate, end_candidate, occupied, day_start, day_end)
            THEN <<start_candidate, end_candidate>>
            ELSE IF (start_candidate + 15) + dur > day_end THEN NoSlot
            ELSE ForwardScan(iter + 1, start_candidate + 15, dur, occupied, day_start, day_end)

\* _find_forward_slot that starts at the cursor itself, not on the grid
ForwardSlotNoRound(cursor, duration_min, occupied, day_start, day_end) ==
    ForwardScan(1, Max2(cursor, day_start), duration_min, occupied, day_start, day_end)

_find_forward_slot(cursor, duration_min, occupied, day_start, day_end) ==
    ForwardScan(1, _round_up_to_grid(Max2(cursor, day_start)), duration_min,
                occupied, day_start, day_end)

\* ------------------------------------------------------ optional reorder
\* call_llm_for_schedule: the reply of the service is given by llm.  It
\* either fails (any exception on the way to the reply), or its content is
\* not a JSON array (the function returns []), or it is a JSON array.
call_llm_for_schedule(reply) ==
    IF reply.kind = "array" THEN reply.items ELSE <<>>

\* int(item.get("duration", 30)) of parse_llm_output raises for a string
\* that is not a number; the item is then skipped (except: continue).
LlmItemValid(item) ==
    /\ item.description.name # ""
    /\ (item.duration.kind = "int" \/ item.duration.parses)

\* The dictionary parse_llm_output appends: description, priority, energy
\* and the clamped integer duration.  It has no 'deadline' key.  priority
\* and energy are never read by the scheduler and are left out.
LlmItemOut(item) ==
    [description |-> item.description,
     duration |-> [kind |-> "int", s |-> "", parses |-> FALSE,
                   n |-> Max2(5, Min2(item.duration.n, 240))],
     deadline |-> [kind |-> "none", hh |-> 0, mm |-> 0]]

parse_llm_output(llm_tasks, fallback) ==
    IF llm_tasks = <<>> THEN fallback
    ELSE LET kept == SelectSeq(llm_tasks, LlmItemValid)
             out == [i \in 1..Len(kept) |-> LlmItemOut(kept[i])]
         IN IF out # <<>> THEN out ELSE fallback

\* ------------------------------------------------------------- partition
HasDescription(t) == t.description.name # ""

\* lines 183-190: the structured 'deadline' field when it has the shape
\* dd:dd, else the 'before/by' phrase of the description.
DeadlineOf(t) ==
    LET dl_dt == IF t.deadline.kind = "hhmm"
                 THEN _time_to_dt(t.deadline.hh, t.deadline.mm)
                 ELSE None
    IN IF dl_dt = None THEN _parse_deadline_from_text(t.description) ELSE dl_dt

PartitionRaises(ts) ==
    \E i \in 1..Len(ts) : HasDescription(ts[i]) /\ DeadlineOf(ts[i]) = ValueError

IsDeadlineTask(t) == HasDescription(t) /\ DeadlineOf(t) # None
IsNormalTask(t) == HasDescription(t) /\ DeadlineOf(t) = None

\* the deadline tasks without the cap of the deadline at day_end
DeadlineTasksNoCap(ts, dayEnd) ==
    LET sel == SelectSeq(ts, IsDeadlineTask)
        prs == [i \in 1..Len(sel) |-> [dl |-> DeadlineOf(sel[i]), t |-> sel[i]]]
        ord == StableOrder([i \in 1..Len(prs) |-> prs[i].dl])
    IN [i \in 1..Len(prs) |-> prs[ord[i]]]

\* lines 192-195 and 200: (min(dl_dt, day_end), t), sorted by the deadline
DeadlineTasks(ts, dayEnd) ==
    LET sel == SelectSeq(ts, IsDeadlineTask)
        prs == [i \in 1..Len(sel) |-> [dl |-> Min2(DeadlineOf(sel[i]), dayEnd), t |-> sel[i]]]
        ord == StableOrder([i \in 1..Len(prs) |-> prs[i].dl])
    IN [i \in 1..Len(prs) |-> prs[ord[i]]]

NormalTasks(ts) == SelectSeq(ts, IsNormalTask)

\* lines 222-226: the cursor skips the interval that contains it
RECURSIVE SkipOccupied(_, _, _)
SkipOccupied(cur, occupied, i) ==
    IF i > Len(occupied) THEN cur
    ELSE IF occupied[i][1] <= cur /\ cur < occupied[i][2]
         THEN SkipOccupied(occupied[i][2], occupied, i + 1)
         ELSE SkipOccupied(cur, occupied, i + 1)

\* The entry appended to 'placed'.  description, start_time and end_time
\* are the keys of the source; s_dt, e_dt, dl and task record the slot, the
\* resolved deadline (None for a forward-placed task) and the task the
\* entry was made from, for the statement of the properties.
PlacedEntry(t, dl, slot) ==
    [description |-> t.description,
     start_time |-> _fmt(slot[1]),
     end_time |-> _fmt(slot[2]),
     s_dt |-> slot[1], e_dt |-> slot[2], dl |-> dl, task |-> t]

\* line 246: placed.sort(key=strptime(start_time, "%I:%M %p"))
SortPlaced(pl) ==
    LET ord == StableOrder([i \in 1..Len(pl) |-> StrptimeIMp(pl[i].start_time)])
    IN [i \in 1..Len(pl) |-> pl[ord[i]]]

\* ---------------------------------------------------------------- inputs
NoText(name) == [name |-> name, hour |-> 0, minute |-> None, ampm |-> "none"]
Phrase(name, hour, minute, ampm) ==
    [name |-> name, hour |-> hour, minute |-> minute, ampm |-> ampm]
IntDur(n) == [kind |-> "int", s |-> "", parses |-> FALSE, n |-> n]
StrDur(s, parses, n) == [kind |-> "str", s |-> s, parses |-> parses, n |-> n]
NoField == [kind |-> "none", hh |-> 0, mm |-> 0]
HHMM(hh, mm) == [kind |-> "hhmm", hh |-> hh, mm |-> mm]
\* a 'deadline' value that does not have the shape dd:dd
OtherField == [kind |-> "other", hh |-> 0, mm |-> 0]
Task(d, dur, dl) == [description |-> d, duration |-> dur, deadline |-> dl]

TaskA == Task(NoText("a"), IntDur(30), NoField)
TaskB == Task(NoText("b"), IntDur(45), NoField)
TaskC == Task(NoText("c"), IntDur(30), HHMM(10, 0))
TaskD == Task(NoText("d"), IntDur(15), HHMM(9, 30))
\* "e by 11 am", duration "long"
TaskE == Task(Phrase("e", 11, None, "am"), StrDur("long", FALSE, 0), NoField)
\* deadline "25:00"
TaskF == Task(NoText("f"), IntDur(20), HHMM(25, 0))
\* "g by 13 pm", duration "45", deadline "5pm"
TaskG == Task(Phrase("g", 13, None, "pm"), StrDur("45", TRUE, 45), OtherField)
\* blank description
TaskH == Task(NoText(""), IntDur(30), NoField)
TaskI == Task(NoText("i"), IntDur(300), NoField)
\* "j before 9:75 pm", duration "soon"
TaskJ == Task(Phrase("j", 9, 75, "pm"), StrDur("soon", FALSE, 0), NoField)
\* "k before 12:30 pm"
TaskK == Task(Phrase("k", 12, 30, "pm"), IntDur(20), NoField)

TaskPool == {TaskA, TaskB, TaskC, TaskD, TaskE, TaskF, TaskG, TaskH, TaskI, TaskJ, TaskK}

TaskLists == UNION {[1..n -> TaskPool] : n \in 0..MaxTasks}

\* current times: 08:53, 23:00 and 23:50
Nows == {533, 1380, 1430}
ScheduleTypes == {"personal", "work-related"}
\* profile['work_hours']['end']: "10:30", "23:55" and "25:00" (the profile
\* is JSON loaded from storage as it is; nothing checks the field)
WorkEnds == {HHMM(10, 30), HHMM(23, 55), HHMM(25, 0)}
\* profile['break_duration_min']: 10 and 15
BreakDurations == {10, 15}
Profiles == [work_hours_end : WorkEnds, break_duration_min : BreakDurations]

Reverse(seq) == [i \in 1..Len(seq) |-> seq[(Len(seq) + 1) - i]]
\* the items of a reply: the tasks in reverse order, the description of
\* item number blank (if any) empty
ReplyItems(ts, blank) ==
    LET r == Reverse(ts)
    IN [i \in 1..Len(r) |-> IF i = blank THEN [r[i] EXCEPT !.description = NoText("")] ELSE r[i]]

LlmReplies(ts) ==
    {[kind |-> "raise", items |-> <<>>], [kind |-> "nonarray", items |-> <<>>],
     [kind |-> "array", items |-> <<>>]}
    \cup {[kind |-> "array", items |-> ReplyItems(ts, b)] : b \in 0..Len(ts)}

\* ------------------------------------------- inputs of one slot search
\* The occupied set of a search is what the scheduler has committed by
\* then: task slots that start on the grid, each followed by its break,
\* merged.  A slot is <<start, end>>.
MaxBlocks == 3
\* 00:15, 04:15, 04:30, 08:30, 08:45, 12:45 and 13:00
BlockStarts == {15, 255, 270, 510, 525, 765, 780}
BlockDurations == {30, 240}
BlockSlots == {<<st, st + d>> : st \in BlockStarts, d \in BlockDurations}

SlotsDisjoint(B) ==
    \A x, y \in B : x # y => (x[2] <= y[1] \/ y[2] <= x[1])

BlockSets == {B \in SUBSET BlockSlots : Cardinality(B) <= MaxBlocks /\ SlotsDisjoint(B)}

RECURSIVE Committed(_)
Committed(B) ==
    IF B = {} THEN <<>>
    ELSE LET x == CHOOSE y \in B : \A z \in B : y[1] <= z[1]
         IN _add_with_break(Committed(B \ {x}), x[1], x[2])

\* windows <<start_from, day_end>>: 00:00-06:00, 00:00-23:55, 09:00-15:00
\* and 09:00-23:55
QueryWindows == {<<0, 360>>, <<0, 1435>>, <<540, 900>>, <<540, 1435>>}
QueryDurations == {5, 15, 20, 30, 240}
\* deadlines 09:30, 12:50 and 23:55, capped at day_end by the caller
QueryDeadlines == {570, 770, 1435}

QueriesOf(w, B) ==
    LET occ == _merge(Committed(B))
    IN {[cursor |-> c, deadline |-> Min2(dl, w[2]), duration_min |-> d, occupied |-> occ,
         day_start |-> w[1], day_end |-> w[2]] :
            c \in {SkipOccupied(w[1], occ, 1)} \cup {x[2] + FORCED_BREAK_MIN : x \in B},
            dl \in QueryDeadlines, d \in QueryDurations}

\* committed slots lie inside the window they were searched in
BlockSetsIn(w) == {B \in BlockSets : \A x \in B : w[1] <= x[1] /\ x[2] <= w[2]}

WindowQueries(w) == UNION {QueriesOf(w, B) : B \in BlockSetsIn(w)}

Queries == UNION {WindowQueries(w) : w \in QueryWindows}

\* ----------------------------------------------------------------- state
VARIABLES now, schedule_type, profile, parsed_tasks, llm,
          pc, start_from, day_end, tasks, deadline_tasks, normal_tasks,
          occupied, placed, cursor, idx, result,
          query, answer

inputs == <<now, schedule_type, profile, parsed_tasks, llm>>
\* one call of a slot search on its own: its arguments and what it returned
slotcall == <<query, answer>>
vars == <<now, schedule_type, profile, parsed_tasks, llm,
          pc, start_from, day_end, tasks, deadline_tasks, normal_tasks,
          occupied, placed, cursor, idx, result, query, answer>>

NoQuery == [cursor |-> None, deadline |-> None, duration_min |-> 0, occupied |-> <<>>,
            day_start |-> None, day_end |-> None]
NoAnswer == [kind |-> "none", slot |-> NoSlot]

Init ==
    /\ now \in Nows
    /\ schedule_type \in ScheduleTypes
    /\ profile \in Profiles
    /\ parsed_tasks \in TaskLists
    /\ llm \in LlmReplies(parsed_tasks)
    /\ pc = "start"
    /\ start_from = None
    /\ day_end = None
    /\ tasks = <<>>
    /\ deadline_tasks = <<>>
    /\ normal_tasks = <<>>
    /\ occupied = <<>>
    /\ placed = <<>>
    /\ cursor = None
    /\ idx = 0
    /\ result = <<>>
    /\ query = NoQuery
    /\ answer = NoAnswer

\* lines 150-151
ReturnEmptyInput ==
    /\ pc = "start"
    /\ parsed_tasks = <<>>
    /\ pc' = "done"
    /\ result' = <<>>
    /\ UNCHANGED <<inputs, slotcall, start_from, day_end, tasks, deadline_tasks, normal_tasks,
                   occupied, placed, cursor, idx>>

\* the end of the window read from the profile in both categories
WindowEndFromProfile(stype, prof, startFrom) ==
    _time_to_dt(prof.work_hours_end.hh, prof.work_hours_end.mm)

\* line 159 (work-related) or line 163 (personal)
WindowEnd(stype, prof, startFrom) ==
    IF stype = "work-related"
    THEN _time_to_dt(prof.work_hours_end.hh, prof.work_hours_end.mm)
    ELSE startFrom + PERSONAL_WINDOW_HOURS * 60

\* lines 153-159: _time_to_dt raises ValueError for a work_hours.end that
\* is not a time of day; line 159 is outside the try of lines 165-171, so
\* the exception leaves schedule_tasks
WindowRaise ==
    /\ pc = "start"
    /\ parsed_tasks # <<>>
    /\ start_from' = _round_up_to_grid(now)
    /\ WindowEnd(schedule_type, profile, start_from') = ValueError
    /\ pc' = "raised"
    /\ UNCHANGED <<inputs, slotcall, day_end, tasks, deadline_tasks, normal_tasks, occupied,
                   placed, cursor, idx, result>>

\* lines 153-161, the work day is over
ReturnEmptyWindow ==
    /\ pc = "start"
    /\ parsed_tasks # <<>>
    /\ start_from' = _round_up_to_grid(now)
    /\ day_end' = WindowEnd(schedule_type, profile, start_from')
    /\ day_end' # ValueError
    /\ schedule_type = "work-related"
    /\ day_end' <= start_from'
    /\ pc' = "done"
    /\ result' = <<>>
    /\ UNCHANGED <<inputs, slotcall, tasks, deadline_tasks, normal_tasks, occupied, placed, cursor, idx>>

\* lines 153-163, the window is not empty
ResolveWindow ==
    /\ pc = "start"
    /\ parsed_tasks # <<>>
    /\ start_from' = _round_up_to_grid(now)
    /\ day_end' = WindowEnd(schedule_type, profile, start_from')
    /\ day_end' # ValueError
    /\ ~(schedule_type = "work-related" /\ day_end' <= start_from')
    /\ pc' = "reorder"
    /\ UNCHANGED <<inputs, slotcall, tasks, deadline_tasks, normal_tasks, occupied, placed, cursor,
                   idx, result>>

\* lines 165-171
Reorder ==
    /\ pc = "reorder"
    /\ tasks' = IF llm.kind = "raise" THEN parsed_tasks
                ELSE parse_llm_output(call_llm_for_schedule(llm), parsed_tasks)
    /\ pc' = "partition"
    /\ UNCHANGED <<inputs, slotcall, start_from, day_end, deadline_tasks, normal_tasks, occupied,
                   placed, cursor, idx, result>>

\* lines 177-197: strptime or datetime.replace raises ValueError, which
\* schedule_tasks does not catch
PartitionRaise ==
    /\ pc = "partition"
    /\ PartitionRaises(tasks)
    /\ pc' = "raised"
    /\ UNCHANGED <<inputs, slotcall, start_from, day_end, tasks, deadline_tasks, normal_tasks,
                   occupied, placed, cursor, idx, result>>

\* lines 173-203
Partition ==
    /\ pc = "partition"
    /\ ~PartitionRaises(tasks)
    /\ deadline_tasks' = DeadlineTasks(tasks, day_end)
    /\ normal_tasks' = NormalTasks(tasks)
    /\ occupied' = <<>>
    /\ placed' = <<>>
    /\ idx' = 1
    /\ pc' = "backward"
    /\ UNCHANGED <<inputs, slotcall, start_from, day_end, tasks, cursor, result>>

BackwardSlot == 
    _find_backward_slot(deadline_tasks[idx].dl, _duration_minutes(deadline_tasks[idx].t),
                        _merge(occupied), start_from)

\* lines 206-219, a slot was found
PlaceDeadlineTask ==
    /\ pc = "backward"
    /\ idx <= Len(deadline_tasks)
    /\ BackwardSlot # NoSlot
    /\ occupied' = _add_with_break(occupied, BackwardSlot[1], BackwardSlot[2])
    /\ placed' = Append(placed, PlacedEntry(deadline_tasks[idx].t, deadline_tasks[idx].dl,
                                            BackwardSlot))
    /\ idx' = idx + 1
    /\ UNCHANGED <<inputs, slotcall, pc, start_from, day_end, tasks, deadline_tasks, normal_tasks,
                   cursor, result>>

\* lines 206-212, no slot: the task is skipped
SkipDeadlineTask ==
    /\ pc = "backward"
    /\ idx <= Len(deadline_tasks)
    /\ BackwardSlot = NoSlot
    /\ idx' = idx + 1
    /\ UNCHANGED <<inputs, slotcall, pc, start_from, day_end, tasks, deadline_tasks, normal_tasks,
                   occupied, placed, cursor, result>>

\* lines 221-226
BeginForward ==
    /\ pc = "backward"
    /\ idx > Len(deadline_tasks)
    /\ occupied' = _merge(occupied)
    /\ cursor' = SkipOccupied(start_from, occupied', 1)
    /\ idx' = 1
    /\ pc' = "forward"
    /\ UNCHANGED <<inputs, slotcall, start_from, day_end, tasks, deadline_tasks, normal_tasks,
                   placed, result>>

ForwardSlot ==
    _find_forward_slot(cursor, _duration_minutes(normal_tasks[idx]), occupied,
                       start_from, day_end)

\* lines 228-243, a slot was found
PlaceNormalTask ==
    /\ pc = "forward"
    /\ idx <= Len(normal_tasks)
    /\ ForwardSlot # NoSlot
    /\ occupied' = _merge(_add_with_break(occupied, ForwardSlot[1], ForwardSlot[2]))
    /\ placed' = Append(placed, PlacedEntry(normal_tasks[idx], None, ForwardSlot))
    /\ cursor' = ForwardSlot[2] + FORCED_BREAK_MIN
    /\ idx' = idx + 1
    /\ pc' = IF cursor' >= day_end THEN "finalize" ELSE "forward"
    /\ UNCHANGED <<inputs, slotcall, start_from, day_end, tasks, deadline_tasks, normal_tasks, result>>

\* the forward loop going on to the next task (continue) where the source
\* leaves the loop (break)
StopForwardContinue ==
    /\ pc = "forward"
    /\ idx <= Len(normal_tasks)
    /\ ForwardSlot = NoSlot
    /\ idx' = idx + 1
    /\ UNCHANGED <<inputs, slotcall, pc, start_from, day_end, tasks, deadline_tasks, normal_tasks,
                   occupied, placed, cursor, result>>

\* lines 228-232, no slot: the loop is left
StopForward ==
    /\ pc = "forward"
    /\ idx <= Len(normal_tasks)
    /\ ForwardSlot = NoSlot
    /\ pc' = "finalize"
    /\ UNCHANGED <<inputs, slotcall, start_from, day_end, tasks, deadline_tasks, normal_tasks,
                   occupied, placed, cursor, idx, result>>

\* line 228, the list is exhausted
EndForward ==
    /\ pc = "forward"
    /\ idx > Len(normal_tasks)
    /\ pc' = "finalize"
    /\ UNCHANGED <<inputs, slotcall, start_from, day_end, tasks, deadline_tasks, normal_tasks,
                   occupied, placed, cursor, idx, result>>

\* lines 245-247
Finalize ==
    /\ pc = "finalize"
    /\ result' = SortPlaced(placed)
    /\ pc' = "done"
    /\ UNCHANGED <<inputs, slotcall, start_from, day_end, tasks, deadline_tasks, normal_tasks,
                   occupied, placed, cursor, idx>>

\* -------------------------------------------- the call as one function
\* lines 205-219 as a loop over the sorted deadline tasks
RECURSIVE BackwardPhase(_, _, _, _, _)
BackwardPhase(dts, i, occ, pl, startFrom) ==
    IF i > Len(dts) THEN [occupied |-> occ, placed |-> pl]
    ELSE LET slot == _find_backward_slot(dts[i].dl, _duration_minutes(dts[i].t),
                                         _merge(occ), startFrom)
         IN IF slot = NoSlot THEN BackwardPhase(dts, i + 1, occ, pl, startFrom)
            ELSE BackwardPhase(dts, i + 1, _add_with_break(occ, slot[1], slot[2]),
                               Append(pl, PlacedEntry(dts[i].t, dts[i].dl, slot)), startFrom)

\* lines 228-243 as a loop over the non-deadline tasks
RECURSIVE ForwardPhase(_, _, _, _, _, _, _)
ForwardPhase(nts, i, occ, pl, cur, startFrom, dayEnd) ==
    IF i > Len(nts) THEN pl
    ELSE LET slot == _find_forward_slot(cur, _duration_minutes(nts[i]), occ, startFrom, dayEnd)
         IN IF slot = NoSlot THEN pl
            ELSE LET pl2 == Append(pl, PlacedEntry(nts[i], None, slot))
                     cur2 == slot[2] + FORCED_BREAK_MIN
                 IN IF cur2 >= dayEnd THEN pl2
                    ELSE ForwardPhase(nts, i + 1,
                                      _merge(_add_with_break(occ, slot[1], slot[2])),
                                      pl2, cur2, startFrom, dayEnd)

\* schedule_tasks for the current time n, the category, a profile, the
\* task list and a reply of the reorder service: the returned list, or the
\* fact that the call raised
schedule_tasks(n, stype, prof, ptasks, reply) ==
    IF ptasks = <<>> THEN [raised |-> FALSE, schedule |-> <<>>]
    ELSE LET startFrom == _round_up_to_grid(n)
             dayEnd == WindowEnd(stype, prof, startFrom)
             ts == IF reply.kind = "raise" THEN ptasks
                   ELSE parse_llm_output(call_llm_for_schedule(reply), ptasks)
             b == BackwardPhase(DeadlineTasks(ts, dayEnd), 1, <<>>, <<>>, startFrom)
             occ == _merge(b.occupied)
             cur == SkipOccupied(startFrom, occ, 1)
         IN IF dayEnd = ValueError THEN [raised |-> TRUE, schedule |-> <<>>]
            ELSE IF stype = "work-related" /\ dayEnd <= startFrom
            THEN [raised |-> FALSE, schedule |-> <<>>]
            ELSE IF PartitionRaises(ts) THEN [raised |-> TRUE, schedule |-> <<>>]
            ELSE [raised |-> FALSE,
                  schedule |-> SortPlaced(ForwardPhase(NormalTasks(ts), 1, occ, b.placed,
                                                       cur, startFrom, dayEnd))]

Next ==
    \/ ReturnEmptyInput
    \/ WindowRaise
    \/ ReturnEmptyWindow
    \/ ResolveWindow
    \/ Reorder
    \/ PartitionRaise
    \/ Partition
    \/ PlaceDeadlineTask
    \/ SkipDeadlineTask
    \/ BeginForward
    \/ PlaceNormalTask
    \/ StopForward
    \/ EndForward
    \/ Finalize

Spec == Init /\ [][Next]_vars

\* ------------------------------------------------ one slot search alone
\* _find_forward_slot and _find_backward_slot called once on a query: the
\* query holds the arguments and the answer what the function returned.
\* The clock, the category and the profile are those that give the window
\* of the query (lines 153-161); the scheduler itself holds no task list.
InitSlots ==
    /\ query \in Queries
    /\ answer = NoAnswer
    /\ now = query.day_start
    /\ schedule_type = (IF query.day_end = query.day_start + PERSONAL_WINDOW_HOURS * 60
                        THEN "personal" ELSE "work-related")
    /\ profile = [work_hours_end |-> HHMM(23, 55), break_duration_min |-> 10]
    /\ parsed_tasks = <<>>
    /\ llm = [kind |-> "raise", items |-> <<>>]
    /\ pc = "query"
    /\ start_from = None
    /\ day_end = None
    /\ tasks = <<>>
    /\ deadline_tasks = <<>>
    /\ normal_tasks = <<>>
    /\ occupied = <<>>
    /\ placed = <<>>
    /\ cursor = None
    /\ idx = 0
    /\ result = <<>>

\* lines 122-134
FindForward ==
    /\ pc = "query"
    /\ answer' = [kind |-> "forward",
                  slot |-> _find_forward_slot(query.cursor, query.duration_min, query.occupied,
                                              query.day_start, query.day_end)]
    /\ pc' = "answered"
    /\ UNCHANGED <<inputs, query, start_from, day_end, tasks, deadline_tasks, normal_tasks,
                   occupied, placed, cursor, idx, result>>

\* lines 105-120
FindBackward ==
    /\ pc = "query"
    /\ answer' = [kind |-> "backward",
                  slot |-> _find_backward_slot(query.deadline, query.duration_min,
                                               query.occupied, query.day_start)]
    /\ pc' = "answered"
    /\ UNCHANGED <<inputs, query, start_from, day_end, tasks, deadline_tasks, normal_tasks,
                   occupied, placed, cursor, idx, result>>

NextSlots ==
    \/ FindForward
    \/ FindBackward

SpecSlots == InitSlots /\ [][NextSlots]_vars

TypeOK ==
    /\ pc \in {"start", "reorder", "partition", "backward", "forward", "finalize",
               "done", "raised"}
    /\ Len(placed) <= Len(tasks)
    /\ Len(result) <= Len(placed)

\* ============================================================ properties
\* every entry placed so far and every entry of the returned schedule
Entries == {placed[i] : i \in 1..Len(placed)} \cup {result[i] : i \in 1..Len(result)}
Returned == {result[i] : i \in 1..Len(result)}

\* 'now' rounded up to the quarter-hour grid, and the end of the window, as
\* the specification words them
QuantizedNow == CHOOSE g \in now..(now + 14) : g % 15 = 0
WorkEndToday == profile.work_hours_end.hh * 60 + profile.work_hours_end.mm
WindowEndToday == IF schedule_type = "work-related" THEN WorkEndToday ELSE QuantizedNow + 6 * 60

\* the reorder collaborator gave nothing to reorder with
NoReorder == llm.kind # "array" \/ llm.items = <<>>

\* C1: in every returned schedule, for every two distinct placed tasks, the
\* intervals [start, end + 5 min) of the two are disjoint.
C1_NoOverlapWithBreaks ==
    pc = "done" =>
        \A i, j \in 1..Len(result) :
            i # j => \/ result[i].e_dt + 5 <= result[j].s_dt
                     \/ result[j].e_dt + 5 <= result[i].s_dt

\* C2: every placed task for which a deadline was resolved (structured
\* HH:MM field or 'before/by' phrase) ends at or before
\* min(deadline, windowEnd).
C2_DeadlineRespected ==
    \A p \in Entries :
        DeadlineOf(p.task) # None =>
            /\ p.dl # None
            /\ p.e_dt <= DeadlineOf(p.task)
            /\ p.e_dt <= WindowEndToday

\* a schedule with a task placed by its structured deadline and a task
\* placed by a textual deadline that lies after the end of the window
C2_Witness ==
    /\ pc = "done"
    /\ \E p, q \in Returned :
          /\ p.task.deadline.kind = "hhmm"
          /\ q.task.deadline.kind # "hhmm"
          /\ DeadlineOf(q.task) > WindowEndToday

\* C3: for every placed task, start_from <= start < end <= windowEnd, with
\* start_from = now rounded up to the grid and windowEnd = today's
\* work_hours.end (work-related) or start_from + 6 hours (personal).
C3_WindowContainment ==
    \A p \in Entries :
        /\ QuantizedNow <= p.s_dt
        /\ p.s_dt < p.e_dt
        /\ p.e_dt <= WindowEndToday

\* a backward-placed task that ends exactly at the window end next to a
\* forward-placed task that starts exactly at start_from
C3_Witness ==
    /\ pc = "done"
    /\ \E p, q \in Returned :
          /\ p.dl # None /\ p.e_dt = WindowEndToday
          /\ q.dl = None /\ q.s_dt = QuantizedNow

\* the requested duration of a task as the specification words it: labels
\* short = 15, medium = 30, long = 60, unparseable = 30, clamped to [5, 240]
RequestedDuration(t) ==
    LET d == t.duration
        raw == IF d.kind = "int" THEN d.n
               ELSE IF d.s = "short" THEN 15
               ELSE IF d.s = "medium" THEN 30
               ELSE IF d.s = "long" THEN 60
               ELSE IF d.parses THEN d.n
               ELSE 30
    IN IF raw < 5 THEN 5 ELSE IF raw > 240 THEN 240 ELSE raw

\* C4: for every placed task, end - start is exactly the requested duration
\* after coercion and clamping to [5, 240], in both phases.
C4_DurationFidelity ==
    \A p \in Entries : p.e_dt - p.s_dt = RequestedDuration(p.task)

\* a backward-placed task whose duration is not a multiple of 15 next to a
\* forward-placed task whose duration was clamped to 240
C4_Witness ==
    /\ pc = "done"
    /\ \E p, q \in Returned :
          /\ p.dl # None /\ (p.e_dt - p.s_dt) % 15 # 0
          /\ q.dl = None /\ q.task.duration.n > 240 /\ q.e_dt - q.s_dt = 240

\* C5: the returned list is in ascending order of the actual start
\* timestamps of the placed tasks.
C5_ChronologicalOrder ==
    pc = "done" =>
        \A i, j \in 1..Len(result) : i < j => result[i].s_dt <= result[j].s_dt

\* a structured field of the shape dd:dd, or a 'before/by' phrase, that is
\* not a valid time of day
UnparseableDeadline(t) ==
    \/ /\ t.deadline.kind = "hhmm"
       /\ (t.deadline.hh > 23 \/ t.deadline.mm > 59)
    \/ /\ t.description.ampm # "none"
       /\ \/ t.description.minute # None /\ t.description.minute > 59
          \/ t.description.ampm = "pm" /\ t.description.hour > 12
          \/ t.description.ampm = "am" /\ t.description.hour > 23

\* the window stage is behind: day_end has been assigned (line 159 or 163)
WindowResolved == day_end # None

\* C6: a task list that holds a task whose deadline cannot be parsed into a
\* valid time of day does not make schedule_tasks raise once the window is
\* resolved (a raise over work_hours.end at line 159 is not the claim's).
C6_UnparseableDeadlineDoesNotRaise ==
    (\E i \in 1..Len(parsed_tasks) : UnparseableDeadline(parsed_tasks[i])) =>
        ~(WindowResolved /\ pc = "raised")

\* the replies for which the reorder step is to fall back: the collaborator
\* raises, returns a non-array, an empty array, or an array in which some
\* item lacks a non-empty description
FallbackReply ==
    \/ llm.kind = "raise"
    \/ llm.kind = "nonarray"
    \/ llm.kind = "array" /\ llm.items = <<>>
    \/ llm.kind = "array" /\ \E i \in 1..Len(llm.items) : llm.items[i].description.name = ""

\* C7: in each of those cases the task list after the reorder step is
\* exactly the original list in the original order.
C7_ReorderFallsBackToOriginal ==
    (pc = "partition" /\ FallbackReply) => tasks = parsed_tasks

\* a reply that is a valid reordering of the input tasks
ValidReordering ==
    /\ llm.kind = "array"
    /\ Len(llm.items) = Len(parsed_tasks)
    /\ llm.items = Reverse(parsed_tasks)
    /\ \A i \in 1..Len(llm.items) :
          /\ llm.items[i].description.name # ""
          /\ (llm.items[i].duration.kind = "int" \/ llm.items[i].duration.parses)

\* C8: after a valid reordering, every placed task whose original input
\* carried a structured HH:MM deadline still ends at or before
\* min(that deadline, windowEnd).
C8_ReorderKeepsStructuredDeadlines ==
    (pc = "done" /\ ValidReordering) =>
        \A p \in Returned : \A i \in 1..Len(parsed_tasks) :
            LET o == parsed_tasks[i]
            IN (/\ o.description = p.description
                /\ o.deadline.kind = "hhmm"
                /\ o.deadline.hh <= 23 /\ o.deadline.mm <= 59)
               => /\ p.e_dt <= o.deadline.hh * 60 + o.deadline.mm
                  /\ p.e_dt <= WindowEndToday

\* C9: work-related category, work_hours.end not strictly after the
\* quantized current time: the call returns the empty list and no step of
\* the pipeline after the window stage is ever taken.
C9_EmptyWindowGuard ==
    (schedule_type = "work-related" /\ WorkEndToday <= QuantizedNow) =>
        /\ pc \in {"start", "done"}
        /\ result = <<>>
        /\ placed = <<>>
        /\ occupied = <<>>

\* the call has returned for a non-empty task list whose window was empty
\* only because rounding 'now' up rolled into the next day
C9_Witness ==
    /\ pc = "done"
    /\ parsed_tasks # <<>>
    /\ schedule_type = "work-related"
    /\ now < WorkEndToday
    /\ WorkEndToday <= QuantizedNow
    /\ QuantizedNow = 1440

\* Scenario A: personal window, start_from = 09:00, no reorder, a 30-minute
\* and a 45-minute task without deadline, in that order
ScenarioA ==
    /\ schedule_type = "personal"
    /\ QuantizedNow = 9 * 60
    /\ NoReorder
    /\ parsed_tasks = <<TaskA, TaskB>>

Slots(res) == [i \in 1..Len(res) |-> <<res[i].description.name, res[i].s_dt, res[i].e_dt>>]
Shown(res) == [i \in 1..Len(res) |-> <<res[i].start_time, res[i].end_time>>]
Clock(h, m, ap) == [hour |-> h, minute |-> m, ampm |-> ap]

\* C10 as stated: Scenario A yields 09:00-09:30 and 09:35-10:20.
C10_ScenarioA_AsStated ==
    (pc = "done" /\ ScenarioA) =>
        Slots(result) = << <<"a", 540, 570>>, <<"b", 575, 620>> >>

\* C10 (amended): Scenario A yields 09:00-09:30 for the first task and
\* 09:45-10:30 for the second: the second task starts at the first
\* quarter-hour mark at or after the end of the first task's 5-minute break.
C10_ScenarioA ==
    (pc = "done" /\ ScenarioA) =>
        /\ day_end = 15 * 60
        /\ Slots(result) = << <<"a", 540, 570>>, <<"b", 585, 630>> >>
        /\ Shown(result) = << <<Clock(9, 0, "AM"), Clock(9, 30, "AM")>>,
                              <<Clock(9, 45, "AM"), Clock(10, 30, "AM")>> >>

C10_Witness ==
    /\ pc = "done"
    /\ ScenarioA
    /\ Len(result) = 2

\* Scenario C: start_from = 09:00, a window that ends at or after 10:00, no
\* reorder, a 30-minute task due 10:00 and a 15-minute task due 09:30
ScenarioC ==
    /\ QuantizedNow = 9 * 60
    /\ WindowEndToday >= 10 * 60
    /\ NoReorder
    /\ parsed_tasks = <<TaskC, TaskD>>

\* C11: in Scenario C both tasks appear in the output, their intervals do
\* not overlap, and each ends at or before its own deadline.
C11_ScenarioC ==
    (pc = "done" /\ ScenarioC) =>
        \E i, j \in 1..Len(result) :
            /\ result[i].description.name = "c"
            /\ result[j].description.name = "d"
            /\ result[i].e_dt <= 10 * 60
            /\ result[j].e_dt <= 9 * 60 + 30
            /\ (result[i].e_dt <= result[j].s_dt \/ result[j].e_dt <= result[i].s_dt)

\* the forward-placed entries of 'placed', in the order of placement
ForwardPlaced == SelectSeq(placed, LAMBDA p : p.dl = None)

\* the placed non-deadline tasks are a prefix of the non-deadline list
ForwardPrefix ==
    /\ Len(ForwardPlaced) <= Len(normal_tasks)
    /\ \A i \in 1..Len(ForwardPlaced) : ForwardPlaced[i].task = normal_tasks[i]

\* what a step may do: a deadline task without a slot is dropped alone and
\* the loop goes on; the forward phase starts only after every deadline task
\* had its turn, and with the first non-deadline task; a non-deadline task
\* without a slot, or a cursor at or past the window end, ends the forward
\* phase; nothing is placed after the forward phase has ended.
ForwardStopsBackwardGoesOn ==
    /\ (pc = "backward" /\ idx <= Len(deadline_tasks) /\ BackwardSlot = NoSlot)
          => (pc' = "backward" /\ idx' = idx + 1 /\ placed' = placed)
    /\ (pc = "backward" /\ pc' # "backward")
          => (idx > Len(deadline_tasks) /\ pc' = "forward" /\ idx' = 1)
    /\ (pc = "forward" /\ idx <= Len(normal_tasks) /\ ForwardSlot = NoSlot)
          => (pc' = "finalize" /\ placed' = placed)
    /\ (pc = "forward" /\ cursor' >= day_end /\ cursor' # cursor) => pc' = "finalize"
    /\ (pc \in {"finalize", "done"}) => placed' = placed

\* C15: the placed non-deadline tasks always form a prefix of the
\* non-deadline list: after the first 'no slot', or once the cursor reaches
\* the window end, no later non-deadline task is placed; a deadline task
\* without a slot is dropped alone and all later tasks are still attempted.
C15_ForwardPrefixBackwardSkip ==
    [](ForwardPrefix) /\ [][ForwardStopsBackwardGoesOn]_vars

\* the forward loop was left at a task without a slot although a later
\* non-deadline task would have fitted
C15_Witness ==
    /\ pc = "done"
    /\ Len(ForwardPlaced) < Len(normal_tasks)
    /\ \E j \in (Len(ForwardPlaced) + 2)..Len(normal_tasks) :
          _find_forward_slot(cursor, _duration_minutes(normal_tasks[j]), occupied,
                             start_from, day_end) # NoSlot

\* C16: the task intervals themselves, without the breaks, are pairwise
\* disjoint under the half-open test.
C16_TaskIntervalsDisjoint ==
    /\ \A i, j \in 1..Len(placed) :
          i # j => (placed[i].e_dt <= placed[j].s_dt \/ placed[j].e_dt <= placed[i].s_dt)
    /\ \A i, j \in 1..Len(result) :
          i # j => (result[i].e_dt <= result[j].s_dt \/ result[j].e_dt <= result[i].s_dt)

\* two placed tasks that touch: one ends exactly where the other starts
C16_Witness ==
    /\ pc = "done"
    /\ \E i, j \in 1..Len(result) : i # j /\ result[i].e_dt = result[j].s_dt

\* every profile the second call may be made with
OtherProfiles == [work_hours_end : WorkEnds, break_duration_min : {5, 10, 15, 60}]

\* the profile p2 agrees with the profile of the call on all the core reads
SameForTheCore(p2) ==
    schedule_type = "personal" \/ p2.work_hours_end = profile.work_hours_end

\* the intervals the placed tasks occupy when each is followed by a break
\* of exactly 5 minutes
TasksWithFiveMinuteBreaks == [i \in 1..Len(placed) |-> <<placed[i].s_dt, placed[i].e_dt + 5>>]

\* C12: with the same current time, task list, category and reorder
\* outcome, a second call with any profile that agrees on work_hours.end (any
\* profile at all in the personal category) gives the same outcome as this
\* call; and the occupied set is the placed tasks with a break of exactly 5
\* minutes after each, whatever break_duration_min is.
C12_ProfileNonInterference ==
    /\ pc \in {"done", "raised"} =>
          \A p2 \in OtherProfiles :
              SameForTheCore(p2) =>
                  schedule_tasks(now, schedule_type, p2, parsed_tasks, llm)
                      = [raised |-> pc = "raised", schedule |-> result]
    /\ _merge(occupied) = _merge(TasksWithFiveMinuteBreaks)

\* a returned schedule in which a task starts at least 5 minutes, but less
\* than the profile's break_duration_min, after the end of another
C12_Witness ==
    /\ pc = "done"
    /\ \E i, j \in 1..Len(result) :
          /\ result[j].s_dt - result[i].e_dt >= 5
          /\ result[j].s_dt - result[i].e_dt < profile.break_duration_min

\* ------------------------------------------------- the two slot searches
\* the quarter-hour grid of a day and of the day after
GridStarts == {15 * k : k \in 0..192}

\* (s, e) overlaps no interval of occ
Free(s, e, occ) == \A i \in 1..Len(occ) : e <= occ[i][1] \/ s >= occ[i][2]

\* the grid starts a forward search for the query may answer with
ForwardFeasible ==
    {s \in GridStarts :
        /\ s >= Max2(query.cursor, query.day_start)
        /\ _fits(s, s + query.duration_min, query.occupied, query.day_start, query.day_end)}

\* the grid starts a backward search for the query may answer with
BackwardFeasible ==
    {s \in GridStarts :
        /\ s >= query.day_start
        /\ s + query.duration_min <= query.deadline
        /\ Free(s, s + query.duration_min, query.occupied)}

\* C13: _find_forward_slot returns the slot with the smallest grid start
\* s >= max(cursor, day_start) for which _fits holds, and no slot only when
\* there is no such start, for every window of up to a full day.
C13_ForwardEarliest ==
    answer.kind = "forward" =>
        answer.slot = IF ForwardFeasible = {} THEN NoSlot
                      ELSE <<SetMin(ForwardFeasible), SetMin(ForwardFeasible) + query.duration_min>>

\* C14: _find_backward_slot returns the slot with the largest grid start s
\* such that s >= day_start, s + duration <= deadline and the slot overlaps
\* no occupied interval, and no slot only when there is no such start, for
\* every distance between day_start and the deadline of up to a full day.
C14_BackwardLatest ==
    answer.kind = "backward" =>
        answer.slot = IF BackwardFeasible = {} THEN NoSlot
                      ELSE <<SetMax(BackwardFeasible), SetMax(BackwardFeasible) + query.duration_min>>

====
